---- MODULE Spec2Model ----
(***************************************************************************)
(* State aggregation and durable snapshot subsystem of the fetcher         *)
(* (src/fetcher/src/main.cpp).                                             *)
(*                                                                         *)
(* One thread runs main(): the poll loop calls client.poll(), which        *)
(* synchronously invokes the notification handlers, then checks the        *)
(* periodic flush timer and sleeps.  pc is the position of that thread.    *)
(* JSON values are tagged records [t |-> type, v |-> value].  Time is      *)
(* counted in whole seconds, the unit of the flush interval.  The epoch of *)
(* std::chrono::steady_clock is arbitrary: the model restarts it at every  *)
(* assignment of last_flush, so that time values stay small.  The clock    *)
(* advances during the sleep of the loop and during a state-file write.    *)
(* Writes to the log file are not modelled.                                *)
(***************************************************************************)
EXTENDS Integers, Sequences, FiniteSets, TLC

VARIABLES
    g_config,         \* the loaded configuration (fixed after start-up)
    fs_writable,      \* whether the state file can be opened for writing
    g_state,          \* FetcherState
    g_state_mutex,    \* live lock_guards on g_state_mutex, outermost first
    pc,               \* position of the main thread
    ret,              \* where save_state_to_file returns to
    cur,              \* slot_data payload of the slot-connected handler in progress
    out,              \* local `out` of save_state_to_file
    state_file,       \* content of the durable snapshot file
    clock,            \* current reading of steady_clock
    now,              \* local `now` of the poll loop
    last_flush,       \* local `last_flush` of the poll loop
    delivered,        \* number of notifications delivered so far
    handling,         \* history: kind of the notification being handled
    stable,           \* history: g_state when the last handler finished its writes
    last,             \* history: latest payload of each mutating notification kind
    flush_started,    \* history: time at which the latest periodic flush started
    flush_ended,      \* history: time at which the latest periodic flush finished
    requests          \* history: requests made to the client by the room-info handler in progress

vars == <<g_config, fs_writable, g_state, g_state_mutex, pc, ret, cur, out,
          state_file, clock, now, last_flush, delivered, handling, stable,
          last, flush_started, flush_ended, requests>>

-----------------------------------------------------------------------------
(* Bounds *)

MaxNotifs == 2      \* notifications delivered in one behaviour
MaxFlushTime == 2   \* duration of a slow state-file write
MaxListLen == 2     \* longest location list the algebraic laws are checked on

-----------------------------------------------------------------------------
(* JSON values *)

JStr(s) == [t |-> "string", v |-> s]
JNum(n) == [t |-> "number", v |-> n]
JObj(f) == [t |-> "object", v |-> f]
JArr(a) == [t |-> "array", v |-> a]
JNull == [t |-> "null", v |-> 0]
EmptyObj == JObj([k \in {} |-> JNull])

\* basic_json::contains(key): false on anything that is not an object
Contains(j, key) == j.t = "object" /\ key \in DOMAIN j.v

\* j[key] = val on an object or null (null becomes an object first)
JSet(j, key, val) ==
    LET f == IF j.t = "object" THEN j.v ELSE EmptyObj.v
    IN  JObj([k \in (DOMAIN f) \cup {key} |-> IF k = key THEN val ELSE f[k]])

\* get<std::string>() and get<int>() throw type_error on another type
CanGetString(j) == j.t = "string"
CanGetInt(j) == j.t \in {"number", "boolean"}

-----------------------------------------------------------------------------
(* Configuration *)

flush_interval_default == 2

ConfiguredGame == "TestGame"

Archipelago == JObj([game |-> JStr(ConfiguredGame)])

ConfigWithStateFile ==
    JObj([archipelago |-> Archipelago,
          paths |-> JObj([state_file |-> JStr("data/state.json")])])

ConfigWithoutStateFile ==
    JObj([archipelago |-> Archipelago, paths |-> EmptyObj])

ArchipelagoTagged ==
    JObj([game |-> JStr(ConfiguredGame), tags |-> JArr(<<JStr("Tracker")>>)])

\* archipelago.tags holds a value that is not a string
ConfigWithBadTags ==
    JObj([archipelago |->
              JObj([game |-> JStr(ConfiguredGame),
                    tags |-> JArr(<<JStr("Tracker"), JNum(5)>>)]),
          paths |-> EmptyObj])

\* paths.state_file is not a string: get<std::string>() at line 107 throws
ConfigWithBadStatePath ==
    JObj([archipelago |-> ArchipelagoTagged,
          paths |-> JObj([state_file |-> JNum(5)])])

\* (configuration, state file can be opened)
Environments ==
    { <<ConfigWithStateFile, TRUE>>,
      <<ConfigWithStateFile, FALSE>>,
      <<ConfigWithoutStateFile, TRUE>>,
      <<ConfigWithBadStatePath, TRUE>>,
      <<ConfigWithBadTags, TRUE>> }

HasStatePath(cfg) == Contains(cfg, "paths") /\ Contains(cfg.v["paths"], "state_file")

\* line 107 goes through without a type_error
StatePathReadable(cfg) == CanGetString(cfg.v["paths"].v["state_file"])

flush_interval ==
    IF Contains(g_config, "fetcher") /\ Contains(g_config.v["fetcher"], "flush_interval")
       /\ CanGetInt(g_config.v["fetcher"].v["flush_interval"])
    THEN g_config.v["fetcher"].v["flush_interval"].v
    ELSE flush_interval_default

-----------------------------------------------------------------------------
(* FetcherState *)

FetcherState ==
    [ room_name |-> "", seed |-> "", server_version |-> "",
      generator_version |-> "", hint_points |-> 0, hint_cost_percent |-> 0,
      hint_cost_points |-> 0,
      slot_name |-> "", game |-> "", slot_id |-> -1, team_id |-> -1,
      player_number |-> -1, team_number |-> -1,
      checked_locations |-> {},
      items |-> << >>,
      data_storage |-> EmptyObj ]

version_to_string(ver) ==
    ToString(ver[1]) \o "." \o ToString(ver[2]) \o "." \o ToString(ver[3])

-----------------------------------------------------------------------------
(* Pure state updates of the notification handlers *)

\* faulty variant of lines 284-288: hint_cost_percent is not refreshed
apply_room_info_stale_cost(s, ri) ==
    [s EXCEPT !.seed = ri.seed,
              !.server_version = version_to_string(ri.server_version),
              !.generator_version = version_to_string(ri.generator_version),
              !.hint_points = ri.hint_points]

\* room-info handler, lines 284-288; ri holds the values of the client accessors
apply_room_info(s, ri) ==
    [s EXCEPT !.seed = ri.seed,
              !.server_version = version_to_string(ri.server_version),
              !.generator_version = version_to_string(ri.generator_version),
              !.hint_points = ri.hint_points,
              !.hint_cost_percent = ri.hint_cost_percent]

\* slot-connected handler, lines 331-333; ident holds the values of the client accessors
slot_accessors(s, ident) ==
    [s EXCEPT !.slot_name = ident.slot,
              !.player_number = ident.player_number,
              !.team_number = ident.team_number]

\* lines 335-339 (the caller has checked that get<std::string>() does not throw)
slot_game(s, slot_data) ==
    IF Contains(slot_data, "game")
    THEN [s EXCEPT !.game = slot_data.v["game"].v]
    ELSE [s EXCEPT !.game = ConfiguredGame]

\* lines 341-343
slot_slot_id(s, slot_data) ==
    IF Contains(slot_data, "slot")
    THEN [s EXCEPT !.slot_id = slot_data.v["slot"].v]
    ELSE s

\* lines 344-346
slot_team_id(s, slot_data) ==
    IF Contains(slot_data, "team")
    THEN [s EXCEPT !.team_id = slot_data.v["team"].v]
    ELSE s

\* line 349
slot_raw(s, slot_data) ==
    [s EXCEPT !.data_storage = JSet(s.data_storage, "slot_data", slot_data)]

\* faulty variant of line 365: insertion that keeps an entry already present
apply_data_package_keep_first(s, dp) ==
    IF Contains(s.data_storage, "data_package") THEN s
    ELSE [s EXCEPT !.data_storage = JSet(s.data_storage, "data_package", dp)]

\* data-package-changed handler, line 365
apply_data_package(s, dp) ==
    [s EXCEPT !.data_storage = JSet(s.data_storage, "data_package", dp)]

\* faulty variant of lines 373-375: only the first id of the list is inserted
record_first_location(checked, locations) ==
    IF locations = << >> THEN checked ELSE checked \cup {Head(locations)}

\* location-checked handler, lines 373-375: std::set::insert of each id in turn
RECURSIVE record_checked_locations(_, _)
record_checked_locations(checked, locations) ==
    IF locations = << >> THEN checked
    ELSE record_checked_locations(checked \cup {Head(locations)}, Tail(locations))

\* faulty variant of lines 386-395: an event whose index is already in the log
\* replaces the logged event instead of being appended
RECURSIVE replace_item_events(_, _, _)
replace_item_events(items, batch, t) ==
    IF batch = << >> THEN items
    ELSE LET evt == [index |-> Head(batch).index, item |-> Head(batch).item,
                     location |-> Head(batch).location,
                     player |-> Head(batch).player,
                     flags |-> Head(batch).flags, timestamp |-> t]
             kept == SelectSeq(items, LAMBDA e : e.index # evt.index)
         IN  replace_item_events(Append(kept, evt), Tail(batch), t)

\* faulty variant of lines 382-395: the time is read anew for every item
RECURSIVE record_item_events_own_time(_, _, _)
record_item_events_own_time(items, batch, t) ==
    IF batch = << >> THEN items
    ELSE record_item_events_own_time(
             Append(items, [index |-> Head(batch).index, item |-> Head(batch).item,
                            location |-> Head(batch).location,
                            player |-> Head(batch).player,
                            flags |-> Head(batch).flags, timestamp |-> t]),
             Tail(batch), t + 1)

\* items-received handler, lines 386-395: one ItemEvent per item, all stamped t
RECURSIVE record_item_events(_, _, _)
record_item_events(items, batch, t) ==
    IF batch = << >> THEN items
    ELSE record_item_events(
             Append(items, [index |-> Head(batch).index, item |-> Head(batch).item,
                            location |-> Head(batch).location,
                            player |-> Head(batch).player,
                            flags |-> Head(batch).flags, timestamp |-> t]),
             Tail(batch), t)

\* faulty variant of lines 410-412: the mapping replaces the stored one
record_retrieved_values_wholesale(s, map) ==
    IF DOMAIN map = {} THEN s
    ELSE [s EXCEPT !.data_storage = JSet(s.data_storage, "retrieved", JObj(map))]

\* retrieved handler, lines 410-412; map is a function from keys to JSON values.
\* data_storage["retrieved"] is created (as null, then an object) by the first
\* assignment only, so an empty map leaves data_storage alone.
record_retrieved_values(s, map) ==
    IF DOMAIN map = {} THEN s
    ELSE LET old == IF Contains(s.data_storage, "retrieved")
                    THEN s.data_storage.v["retrieved"] ELSE JNull
             f == IF old.t = "object" THEN old.v ELSE EmptyObj.v
             new == JObj([k \in (DOMAIN f) \cup (DOMAIN map) |->
                             IF k \in DOMAIN map THEN map[k] ELSE f[k]])
         IN  [s EXCEPT !.data_storage = JSet(s.data_storage, "retrieved", new)]

-----------------------------------------------------------------------------
(* The snapshot built by save_state_to_file *)

\* iteration of std::set<int64_t>: ascending order
RECURSIVE set_in_order(_)
set_in_order(S) ==
    IF S = {} THEN << >>
    ELSE LET m == CHOOSE x \in S : \A y \in S : x <= y
         IN  <<m>> \o set_in_order(S \ {m})

\* faulty variant of lines 124-140: the game looked up is the configured one
total_locations_configured_game(s) ==
    IF Contains(s.data_storage, "data_package")
    THEN LET dp == s.data_storage.v["data_package"]
         IN  IF Contains(dp, "games") /\ Contains(dp.v["games"], ConfiguredGame)
             THEN LET game_obj == dp.v["games"].v[ConfiguredGame]
                  IN  IF Contains(game_obj, "locations")
                         /\ game_obj.v["locations"].t = "object"
                      THEN Cardinality(DOMAIN game_obj.v["locations"].v)
                      ELSE 0
             ELSE 0
    ELSE 0

\* lines 124-140
total_locations(s) ==
    IF Contains(s.data_storage, "data_package")
    THEN LET dp == s.data_storage.v["data_package"]
         IN  IF Contains(dp, "games") /\ Contains(dp.v["games"], s.game)
             THEN LET game_obj == dp.v["games"].v[s.game]
                  IN  IF Contains(game_obj, "locations")
                         /\ game_obj.v["locations"].t = "object"
                      THEN Cardinality(DOMAIN game_obj.v["locations"].v)
                      ELSE 0
             ELSE 0
    ELSE 0

\* lines 162-173
items_json(items) ==
    [i \in 1..Len(items) |->
        [index |-> items[i].index, item |-> items[i].item,
         location |-> items[i].location, player |-> items[i].player,
         flags |-> items[i].flags, time |-> items[i].timestamp]]

\* lines 109-182: the JSON document `out`
snapshot(s, cfg) ==
    LET doc ==
          [room |-> [room_name |-> s.room_name, seed |-> s.seed,
                     server_version |-> s.server_version,
                     generator_version |-> s.generator_version,
                     hint_points |-> s.hint_points,
                     hint_cost_percent |-> s.hint_cost_percent,
                     hint_cost_points |-> s.hint_cost_points,
                     location_count |-> total_locations(s)],
           me |-> [slot_name |-> s.slot_name, game |-> s.game,
                   slot_id |-> s.slot_id, team_id |-> s.team_id,
                   player_number |-> s.player_number,
                   team_number |-> s.team_number],
           checked_locations |-> set_in_order(s.checked_locations),
           items |-> items_json(s.items),
           data_storage |-> s.data_storage]
    IN  IF Contains(cfg, "archipelago")
        THEN doc @@ [archipelago |-> cfg.v["archipelago"]]
        ELSE doc

-----------------------------------------------------------------------------
(* Notifications the session client can deliver *)

RoomInfos ==
    { [seed |-> "abc123", server_version |-> <<0, 5, 1>>,
       generator_version |-> <<0, 5, 0>>, hint_points |-> 10,
       hint_cost_percent |-> 5],
      [seed |-> "xyz789", server_version |-> <<0, 6, 0>>,
       generator_version |-> <<0, 6, 2>>, hint_points |-> 3,
       hint_cost_percent |-> 20] }

Player == [slot |-> "Player", player_number |-> 1, team_number |-> 0]
Alice == [slot |-> "Alice", player_number |-> 2, team_number |-> 1]

\* (values of the client accessors, slot_data payload)
SlotNotifications ==
    { <<Player, EmptyObj>>,
      <<Alice, JObj([game |-> JStr("OtherGame"), slot |-> JNum(3), team |-> JNum(1)])>>,
      <<Player, JObj([game |-> JNum(7)])>>,
      <<Alice, JObj([game |-> JStr("ThirdGame"), team |-> JStr("one")])>> }

DataPackages ==
    { JObj([games |-> JObj([TestGame |->
                JObj([locations |-> JObj([Cave |-> JNum(5), Tower |-> JNum(7)])])])]),
      JObj([games |-> JObj([OtherGame |->
                JObj([locations |-> JObj([Shop |-> JNum(9)])])])]),
      JObj([games |-> JObj([TestGame |->
                JObj([locations |-> JArr(<<JNum(5), JNum(7), JNum(9)>>)])])]) }

LocationLists == { << >>, <<5, 5, 7>>, <<7, 9>> }

Item1 == [index |-> 1, item |-> 100, location |-> 5, player |-> 2, flags |-> 0]
Item2 == [index |-> 2, item |-> 101, location |-> 6, player |-> 2, flags |-> 1]

ItemBatches == { << >>, <<Item1, Item2>>, <<Item2>> }

\* values std::time(nullptr) can return
WallTimes == {1700000000, 1700000060}

RetrievedMaps ==
    { [k \in {} |-> JNull],
      [k1 |-> JNum(1)],
      [k1 |-> JNum(2), k2 |-> JStr("v")] }

LogOnlyKinds ==
    { "socket_connected", "socket_error", "socket_disconnected",
      "slot_disconnected", "print_json" }

-----------------------------------------------------------------------------
(* Initial state: main() has loaded the configuration, registered the      *)
(* handlers and is about to enter the poll loop (line 431).                *)

NoPayload == JNull

NoHistory ==
    [room_info |-> << >>, slot_connected |-> << >>, data_package |-> << >>,
     location_checked |-> << >>, items_received |-> << >>, retrieved |-> << >>]

Init ==
    /\ \E env \in Environments : g_config = env[1] /\ fs_writable = env[2]
    /\ g_state = FetcherState
    /\ g_state_mutex = << >>
    /\ pc = "poll"
    /\ ret = "none"
    /\ cur = NoPayload
    /\ out = << >>
    /\ state_file = << >>
    /\ clock = 0
    /\ now = 0
    /\ last_flush = 0
    /\ delivered = 0
    /\ handling = "none"
    /\ stable = FetcherState
    /\ last = NoHistory
    /\ flush_started = 0
    /\ flush_ended = 0
    /\ requests = << >>

-----------------------------------------------------------------------------
(* Helpers of the actions *)

timer_vars == <<now, last_flush, flush_started, flush_ended>>
save_vars == <<out, state_file, clock>>
env_vars == <<g_config, fs_writable>>

\* a notification of `kind` is handed to its handler by client.poll()
Deliver(kind, payload) ==
    /\ pc = "poll"
    /\ delivered < MaxNotifs
    /\ delivered' = delivered + 1
    /\ handling' = kind
    /\ last' = IF kind \in DOMAIN last
               THEN [last EXCEPT ![kind] = <<payload>>]
               ELSE last

\* call of save_state_to_file() that returns to position `to`
CallSave(to) ==
    /\ pc' = "save_enter"
    /\ ret' = to

-----------------------------------------------------------------------------
(* Notification handlers *)

\* lines 279-293: guarded update of the room fields, then save_state_to_file()
RoomInfo(ri) ==
    /\ Deliver("room_info", ri)
    /\ g_state' = apply_room_info(g_state, ri)
    /\ stable' = g_state'
    /\ CallSave("ri_requests")
    /\ UNCHANGED <<g_state_mutex, cur>>
    /\ UNCHANGED <<env_vars, save_vars, timer_vars, requests>>

\* what GetDataPackage() can do: return true, return false, throw
GetDataPackageResults == { "true", "false", "exception" }

\* lines 295-304: GetDataPackage({game}); whatever it does is only logged
RoomInfoGetDataPackage ==
    /\ pc = "ri_requests"
    /\ \E result \in GetDataPackageResults :
           requests' = Append(requests, [op |-> "GetDataPackage",
                                         include |-> <<ConfiguredGame>>,
                                         result |-> result])
    /\ pc' = "ri_connect"
    /\ UNCHANGED <<g_state, g_state_mutex, ret, cur, delivered, handling, stable, last>>
    /\ UNCHANGED <<env_vars, save_vars, timer_vars>>

\* a type_error leaves the room-info handler, which holds no lock_guard
RoomInfoThrows ==
    /\ pc' = "thrown"
    /\ UNCHANGED <<g_state, g_state_mutex, ret, cur, delivered, handling, stable,
                   last, requests>>
    /\ UNCHANGED <<env_vars, save_vars, timer_vars>>

\* line 308
HasTags(cfg) ==
    Contains(cfg.v["archipelago"], "tags") /\ cfg.v["archipelago"].v["tags"].t = "array"

\* lines 307-312: the local list `tags`
tags_of(cfg) ==
    IF HasTags(cfg)
    THEN [i \in 1..Len(cfg.v["archipelago"].v["tags"].v) |->
             cfg.v["archipelago"].v["tags"].v[i].v]
    ELSE << >>

\* lines 306-320: the tags are read from the configuration (get<std::string>()
\* throws on a tag that is not a string), then ConnectSlot(); its result is
\* only logged
RoomInfoConnectSlot ==
    /\ pc = "ri_connect"
    /\ IF HasTags(g_config)
          /\ \E i \in 1..Len(g_config.v["archipelago"].v["tags"].v) :
                 ~CanGetString(g_config.v["archipelago"].v["tags"].v[i])
       THEN RoomInfoThrows
       ELSE /\ \E ok \in BOOLEAN :
                   requests' = Append(requests, [op |-> "ConnectSlot",
                                                 tags |-> tags_of(g_config),
                                                 result |-> ok])
            /\ pc' = "ri_return"
            /\ UNCHANGED <<g_state, g_state_mutex, ret, cur, delivered, handling,
                           stable, last>>
            /\ UNCHANGED <<env_vars, save_vars, timer_vars>>

\* line 321: end of the room-info lambda
RoomInfoReturn ==
    /\ pc = "ri_return"
    /\ pc' = "poll"
    /\ handling' = "none"
    /\ requests' = << >>
    /\ UNCHANGED <<g_state, g_state_mutex, ret, cur, delivered, stable, last>>
    /\ UNCHANGED <<env_vars, save_vars, timer_vars>>

\* lines 324-333: lock, then the fields read through the client accessors
SlotConnected(ident, slot_data) ==
    /\ Deliver("slot_connected", <<ident, slot_data>>)
    /\ g_state_mutex' = Append(g_state_mutex, "slot_connected")
    /\ g_state' = slot_accessors(g_state, ident)
    /\ cur' = slot_data
    /\ pc' = "sc_game"
    /\ UNCHANGED <<ret, stable>>
    /\ UNCHANGED <<env_vars, save_vars, timer_vars, requests>>

\* a type_error leaves the handler: the lock_guard is destroyed on the way out
HandlerThrows ==
    /\ g_state_mutex' = SubSeq(g_state_mutex, 1, Len(g_state_mutex) - 1)
    /\ stable' = g_state
    /\ pc' = "thrown"
    /\ UNCHANGED <<g_state, ret, cur, delivered, handling, last>>
    /\ UNCHANGED <<env_vars, save_vars, timer_vars, requests>>

\* lines 335-339
SlotConnectedGame ==
    /\ pc = "sc_game"
    /\ IF Contains(cur, "game") /\ ~CanGetString(cur.v["game"])
       THEN HandlerThrows
       ELSE /\ g_state' = slot_game(g_state, cur)
            /\ pc' = "sc_slot"
            /\ UNCHANGED <<g_state_mutex, ret, cur, delivered, handling, stable, last>>
            /\ UNCHANGED <<env_vars, save_vars, timer_vars, requests>>

\* lines 341-343
SlotConnectedSlot ==
    /\ pc = "sc_slot"
    /\ IF Contains(cur, "slot") /\ ~CanGetInt(cur.v["slot"])
       THEN HandlerThrows
       ELSE /\ g_state' = slot_slot_id(g_state, cur)
            /\ pc' = "sc_team"
            /\ UNCHANGED <<g_state_mutex, ret, cur, delivered, handling, stable, last>>
            /\ UNCHANGED <<env_vars, save_vars, timer_vars, requests>>

\* faulty variant of lines 344-353: the guarded block ends and the state is
\* saved before the raw payload has been stored
SlotConnectedTeam_SavesEarly ==
    /\ pc = "sc_team"
    /\ g_state' = slot_team_id(g_state, cur)
    /\ g_state_mutex' = SubSeq(g_state_mutex, 1, Len(g_state_mutex) - 1)
    /\ CallSave("sc_raw")
    /\ UNCHANGED <<cur, delivered, handling, stable, last>>
    /\ UNCHANGED <<env_vars, save_vars, timer_vars, requests>>

\* lines 344-346
SlotConnectedTeam ==
    /\ pc = "sc_team"
    /\ IF Contains(cur, "team") /\ ~CanGetInt(cur.v["team"])
       THEN HandlerThrows
       ELSE /\ g_state' = slot_team_id(g_state, cur)
            /\ pc' = "sc_raw"
            /\ UNCHANGED <<g_state_mutex, ret, cur, delivered, handling, stable, last>>
            /\ UNCHANGED <<env_vars, save_vars, timer_vars, requests>>

\* lines 349-353: raw payload kept, end of the guarded block, save_state_to_file()
SlotConnectedRaw ==
    /\ pc = "sc_raw"
    /\ g_state' = slot_raw(g_state, cur)
    /\ g_state_mutex' = SubSeq(g_state_mutex, 1, Len(g_state_mutex) - 1)
    /\ stable' = g_state'
    /\ CallSave("handler_return")
    /\ UNCHANGED <<cur, delivered, handling, last>>
    /\ UNCHANGED <<env_vars, save_vars, timer_vars, requests>>

\* faulty variant of lines 361-368: the state is saved without the new package
DataPackageChanged_Dropped(dp) ==
    /\ Deliver("data_package", dp)
    /\ CallSave("handler_return")
    /\ UNCHANGED <<g_state, stable, g_state_mutex, cur>>
    /\ UNCHANGED <<env_vars, save_vars, timer_vars, requests>>

\* lines 361-368
DataPackageChanged(dp) ==
    /\ Deliver("data_package", dp)
    /\ g_state' = apply_data_package(g_state, dp)
    /\ stable' = g_state'
    /\ CallSave("handler_return")
    /\ UNCHANGED <<g_state_mutex, cur>>
    /\ UNCHANGED <<env_vars, save_vars, timer_vars, requests>>

\* faulty variant of lines 371-378: the handler saves on demand
LocationChecked_Saves(locations) ==
    /\ Deliver("location_checked", locations)
    /\ g_state' = [g_state EXCEPT !.checked_locations =
                       record_checked_locations(@, locations)]
    /\ stable' = g_state'
    /\ CallSave("handler_return")
    /\ UNCHANGED <<g_state_mutex, cur>>
    /\ UNCHANGED <<env_vars, save_vars, timer_vars, requests>>

\* lines 371-378: the whole handler runs under the lock and does not save
LocationChecked(locations) ==
    /\ Deliver("location_checked", locations)
    /\ g_state' = [g_state EXCEPT !.checked_locations =
                       record_checked_locations(@, locations)]
    /\ stable' = g_state'
    /\ pc' = "handler_return"
    /\ UNCHANGED <<g_state_mutex, ret, cur>>
    /\ UNCHANGED <<env_vars, save_vars, timer_vars, requests>>

\* lines 381-400: std::time() read once, then the guarded appends; no save
ItemsReceived(batch, wall_now) ==
    /\ Deliver("items_received", <<batch, wall_now>>)
    /\ g_state' = [g_state EXCEPT !.items = record_item_events(@, batch, wall_now)]
    /\ stable' = g_state'
    /\ pc' = "handler_return"
    /\ UNCHANGED <<g_state_mutex, ret, cur>>
    /\ UNCHANGED <<env_vars, save_vars, timer_vars, requests>>

\* lines 408-413: the lock_guard lives until the end of the lambda, so
\* save_state_to_file() is called with the mutex held
Retrieved(map) ==
    /\ Deliver("retrieved", map)
    /\ g_state_mutex' = Append(g_state_mutex, "retrieved")
    /\ g_state' = record_retrieved_values(g_state, map)
    /\ stable' = g_state'
    /\ CallSave("rt_return")
    /\ UNCHANGED cur
    /\ UNCHANGED <<env_vars, save_vars, timer_vars, requests>>

\* line 414: end of the retrieved lambda, its lock_guard is destroyed
RetrievedReturn ==
    /\ pc = "rt_return"
    /\ g_state_mutex' = SubSeq(g_state_mutex, 1, Len(g_state_mutex) - 1)
    /\ pc' = "poll"
    /\ handling' = "none"
    /\ UNCHANGED <<g_state, ret, cur, delivered, stable, last>>
    /\ UNCHANGED <<env_vars, save_vars, timer_vars, requests>>

\* faulty variant of lines 356-358: a slot disconnect forgets the slot identity
LogOnly_DisconnectClears(kind) ==
    /\ pc = "poll"
    /\ delivered < MaxNotifs
    /\ delivered' = delivered + 1
    /\ g_state' = IF kind = "slot_disconnected"
                  THEN [g_state EXCEPT !.slot_name = FetcherState.slot_name,
                                       !.game = FetcherState.game,
                                       !.slot_id = FetcherState.slot_id,
                                       !.team_id = FetcherState.team_id]
                  ELSE g_state
    /\ UNCHANGED <<g_state_mutex, pc, ret, cur, handling, stable, last>>
    /\ UNCHANGED <<env_vars, save_vars, timer_vars, requests>>

\* lines 266-276, 356-358, 403-405: handlers that only log
LogOnly(kind) ==
    /\ pc = "poll"
    /\ delivered < MaxNotifs
    /\ delivered' = delivered + 1
    /\ UNCHANGED <<g_state, g_state_mutex, pc, ret, cur, handling, stable, last>>
    /\ UNCHANGED <<env_vars, save_vars, timer_vars, requests>>

\* a handler returns to client.poll()
HandlerReturn ==
    /\ pc = "handler_return"
    /\ pc' = "poll"
    /\ handling' = "none"
    /\ cur' = NoPayload
    /\ UNCHANGED <<g_state, g_state_mutex, ret, delivered, stable, last>>
    /\ UNCHANGED <<env_vars, save_vars, timer_vars, requests>>

\* The exception of a handler travels up through client.poll(), which is not
\* part of this program: either the client swallows it and goes on ...
PollAbsorbsException ==
    /\ pc = "thrown"
    /\ pc' = "poll"
    /\ handling' = "none"
    /\ cur' = NoPayload
    /\ requests' = << >>
    /\ UNCHANGED <<g_state, g_state_mutex, ret, delivered, stable, last>>
    /\ UNCHANGED <<env_vars, save_vars, timer_vars>>

\* ... or it reaches the catch of main(), lines 445-454: the process exits
MainCatchesException ==
    /\ pc = "thrown"
    /\ pc' = "exited"
    /\ UNCHANGED <<g_state, g_state_mutex, ret, cur, delivered, handling, stable, last>>
    /\ UNCHANGED <<env_vars, save_vars, timer_vars, requests>>

-----------------------------------------------------------------------------
(* save_state_to_file, lines 101-198 *)

handler_vars == <<g_state, cur, delivered, handling, stable, last, requests>>

\* return of save_state_to_file() to its caller
ReturnFromSave ==
    /\ pc' = ret
    /\ ret' = "none"

\* lines 103-111: configuration check (a state path of another type than
\* string throws at line 107, caught at line 192), then the lock_guard.
\* Locking a std::mutex that the calling thread already owns is undefined
\* behaviour: the thread blocks for ever, or lock() throws std::system_error
\* (caught at line 192), or lock() returns as if it had succeeded.
SaveEnter ==
    /\ pc = "save_enter"
    /\ IF ~HasStatePath(g_config) \/ ~StatePathReadable(g_config)
       THEN ReturnFromSave /\ UNCHANGED g_state_mutex
       ELSE IF g_state_mutex = << >>
       THEN /\ g_state_mutex' = <<"save">>
            /\ pc' = "save_copy"
            /\ UNCHANGED ret
       ELSE \/ pc' = "deadlock" /\ UNCHANGED <<g_state_mutex, ret>>
            \/ ReturnFromSave /\ UNCHANGED g_state_mutex
            \/ /\ g_state_mutex' = Append(g_state_mutex, "save")
               /\ pc' = "save_copy"
               /\ UNCHANGED ret
    /\ UNCHANGED <<handler_vars, env_vars, save_vars, timer_vars>>

\* lines 112-182: the snapshot is copied into `out`, the lock_guard ends
SaveCopy ==
    /\ pc = "save_copy"
    /\ out' = <<snapshot(g_state, g_config)>>
    /\ g_state_mutex' = SubSeq(g_state_mutex, 1, Len(g_state_mutex) - 1)
    /\ pc' = "save_io"
    /\ UNCHANGED <<ret, state_file, clock>>
    /\ UNCHANGED <<handler_vars, env_vars, timer_vars>>

\* a write is immediate or slow
FlushDurations == {0, MaxFlushTime}

\* faulty variant of lines 184-190: a file that cannot be opened raises
SaveWrite_OpenFailureRaises ==
    /\ pc = "save_io"
    /\ IF fs_writable
       THEN /\ state_file' = out
            /\ \E d \in FlushDurations : clock' = clock + d
            /\ ReturnFromSave
       ELSE /\ pc' = "thrown"
            /\ UNCHANGED <<ret, state_file, clock>>
    /\ out' = << >>
    /\ UNCHANGED g_state_mutex
    /\ UNCHANGED <<handler_vars, env_vars, timer_vars>>

\* lines 184-190: the file is opened (truncated) and `out` is written, which
\* takes some time; a file that cannot be opened is logged and left alone
SaveWrite ==
    /\ pc = "save_io"
    /\ IF fs_writable
       THEN /\ state_file' = out
            /\ \E d \in FlushDurations : clock' = clock + d
       ELSE UNCHANGED <<state_file, clock>>
    /\ out' = << >>
    /\ ReturnFromSave
    /\ UNCHANGED g_state_mutex
    /\ UNCHANGED <<handler_vars, env_vars, timer_vars>>

-----------------------------------------------------------------------------
(* Main poll loop, lines 431-441 *)

\* faulty variant of line 437: the timer restarts when the flush has finished
next_last_flush_at_end(loop_now, time_after_save) == time_after_save

\* line 437
next_last_flush(loop_now, time_after_save) == loop_now

\* line 432: client.poll() has no more notifications to deliver
PollReturns ==
    /\ pc = "poll"
    /\ pc' = "check"
    /\ UNCHANGED <<g_state_mutex, ret>>
    /\ UNCHANGED <<handler_vars, env_vars, save_vars, timer_vars>>

\* lines 434-436
PeriodicCheck ==
    /\ pc = "check"
    /\ now' = clock
    /\ IF now' - last_flush >= flush_interval
       THEN /\ CallSave("flushed")
            /\ flush_started' = clock
       ELSE /\ pc' = "sleep"
            /\ UNCHANGED <<ret, flush_started>>
    /\ UNCHANGED <<last_flush, flush_ended, g_state_mutex>>
    /\ UNCHANGED <<handler_vars, env_vars, save_vars>>

\* line 437: last_flush is assigned; the clock's epoch moves to that instant
PeriodicFlushed ==
    /\ pc = "flushed"
    /\ LET epoch == next_last_flush(now, clock)
       IN  /\ last_flush' = epoch - epoch
           /\ now' = now - epoch
           /\ clock' = clock - epoch
           /\ flush_started' = flush_started - epoch
           /\ flush_ended' = clock - epoch
    /\ pc' = "sleep"
    /\ UNCHANGED <<out, state_file, g_state_mutex, ret>>
    /\ UNCHANGED <<handler_vars, env_vars>>

\* line 440: the 50 ms sleep may carry the clock into the next second;
\* the loop body's local `now` ends with the iteration
Sleep ==
    /\ pc = "sleep"
    /\ \E d \in 0..1 : clock' = clock + d
    /\ now' = 0
    /\ pc' = "poll"
    /\ UNCHANGED <<last_flush, flush_started, flush_ended>>
    /\ UNCHANGED <<out, state_file, g_state_mutex, ret>>
    /\ UNCHANGED <<handler_vars, env_vars>>

-----------------------------------------------------------------------------

Next ==
    \/ \E ri \in RoomInfos : RoomInfo(ri)
    \/ RoomInfoGetDataPackage
    \/ RoomInfoConnectSlot
    \/ RoomInfoReturn
    \/ \E n \in SlotNotifications : SlotConnected(n[1], n[2])
    \/ SlotConnectedGame
    \/ SlotConnectedSlot
    \/ SlotConnectedTeam
    \/ SlotConnectedRaw
    \/ \E dp \in DataPackages : DataPackageChanged(dp)
    \/ \E locations \in LocationLists : LocationChecked(locations)
    \/ \E batch \in ItemBatches, wall_now \in WallTimes : ItemsReceived(batch, wall_now)
    \/ \E map \in RetrievedMaps : Retrieved(map)
    \/ RetrievedReturn
    \/ \E kind \in LogOnlyKinds : LogOnly(kind)
    \/ HandlerReturn
    \/ PollAbsorbsException
    \/ MainCatchesException
    \/ SaveEnter
    \/ SaveCopy
    \/ SaveWrite
    \/ PollReturns
    \/ PeriodicCheck
    \/ PeriodicFlushed
    \/ Sleep

Spec == Init /\ [][Next]_vars

-----------------------------------------------------------------------------
(* Claims *)

HighValueKinds == { "room_info", "slot_connected", "data_package", "retrieved" }

\* C1: every snapshot taken by save_state_to_file is atomic with respect to
\* the mutating handlers: the copy is taken from a state in which no handler
\* is part-way through its writes, so the snapshot is the state entirely
\* before or entirely after each mutation, never a mix of the two.
C1_SnapshotAtomic ==
    /\ pc = "save_copy" => g_state = stable
    /\ out # << >> => out = <<snapshot(stable, g_config)>>

\* a flush has copied the state left by a completed slot-connected mutation
C1_Witness ==
    /\ pc = "save_io"
    /\ handling = "slot_connected"
    /\ out[1].me.slot_name = "Alice"
    /\ out[1].me.slot_id = 3
    /\ Contains(out[1].data_storage, "slot_data")

\* C2: after each high-value notification (room info, slot connected, data
\* package changed, retrieved values) the on-demand flush has completed when
\* the handler comes back from save_state_to_file, so the state file holds
\* that notification's mutation (state path configured, file writable).
C2_OnDemandFlushCompletes ==
    ( /\ handling \in HighValueKinds
      /\ pc \in {"ri_requests", "handler_return", "rt_return"}
      /\ HasStatePath(g_config)
      /\ fs_writable )
    => state_file = <<snapshot(g_state, g_config)>>

\* C3 as stated: at the loop's check a periodic flush is started exactly when
\* at least flush_interval has elapsed since the previous periodic flush
\* finished.
C3_TimerFromFlushEnd ==
    [][ pc = "check" =>
          (pc' = "save_enter" <=> clock - flush_ended >= flush_interval) ]_vars

\* C3 as amended: at the loop's check a periodic flush is started exactly when
\* at least flush_interval has elapsed since the clock reading taken just
\* before the previous periodic flush started (since loop entry for the
\* first one), so the duration of a flush counts towards the next interval.
C3_TimerFromFlushStart ==
    [][ pc = "check" =>
          (pc' = "save_enter" <=> clock - flush_started >= flush_interval) ]_vars

\* a periodic flush starts although less than flush_interval has passed since
\* the previous, slow, periodic flush finished
C3_Witness ==
    /\ pc = "save_enter"
    /\ ret = "flushed"
    /\ flush_ended > 0
    /\ clock - flush_ended < flush_interval
    /\ clock - last_flush >= flush_interval

\* C4: whenever save_state_to_file runs outside its own guarded block (its
\* configuration check, the serialization and the file write), no lock_guard
\* on the state mutex is alive, not even one of the caller.
C4_IoOutsideLock ==
    pc \in {"save_enter", "save_io"} => g_state_mutex = << >>

\* the identity a completed slot-connected notification is expected to leave
SlotConnectedDone ==
    /\ handling = "slot_connected"
    /\ pc = "handler_return" \/ ret = "handler_return"

\* C5: a slot-connected notification overwrites the slot identity wholesale:
\* once its handler has done its writes, slot_name, player_number,
\* team_number, game (the payload's, else the configured game), slot_id,
\* team_id and the raw payload are those of this notification alone; a field
\* the payload omits does not keep the value of an earlier notification.
C5_SlotIdentityWholesale ==
    SlotConnectedDone =>
        LET ident == last.slot_connected[1][1]
            slot_data == last.slot_connected[1][2]
        IN  /\ g_state.slot_name = ident.slot
            /\ g_state.player_number = ident.player_number
            /\ g_state.team_number = ident.team_number
            /\ g_state.game = IF Contains(slot_data, "game")
                              THEN slot_data.v["game"].v ELSE ConfiguredGame
            /\ g_state.slot_id = IF Contains(slot_data, "slot")
                                 THEN slot_data.v["slot"].v ELSE FetcherState.slot_id
            /\ g_state.team_id = IF Contains(slot_data, "team")
                                 THEN slot_data.v["team"].v ELSE FetcherState.team_id
            /\ Contains(g_state.data_storage, "slot_data")
            /\ g_state.data_storage.v["slot_data"] = slot_data

\* C6: a mutating handler cannot fail and is all-or-nothing, whatever the
\* shape of the payload: no handler is left by an exception, and once a
\* slot-connected notification has been handled its payload is stored as-is
\* together with the accessor fields of the same notification.
C6_MutationsCannotFail ==
    /\ pc \notin {"thrown", "exited"}
    /\ (handling = "none" /\ last.slot_connected # << >>) =>
           /\ Contains(g_state.data_storage, "slot_data")
           /\ g_state.data_storage.v["slot_data"] = last.slot_connected[1][2]
           /\ g_state.slot_name = last.slot_connected[1][1].slot

\* the text the accessors' versions are expected to be stored as
VersionText(ver) ==
    CASE ver = <<0, 5, 1>> -> "0.5.1"
      [] ver = <<0, 5, 0>> -> "0.5.0"
      [] ver = <<0, 6, 0>> -> "0.6.0"
      [] ver = <<0, 6, 2>> -> "0.6.2"

RoomAsDelivered(room) ==
    /\ room.room_name = ""
    /\ room.hint_cost_points = 0
    /\ IF last.room_info = << >>
       THEN /\ room.seed = ""
            /\ room.server_version = ""
            /\ room.generator_version = ""
            /\ room.hint_points = 0
            /\ room.hint_cost_percent = 0
       ELSE LET ri == last.room_info[1]
            IN  /\ room.seed = ri.seed
                /\ room.server_version = VersionText(ri.server_version)
                /\ room.generator_version = VersionText(ri.generator_version)
                /\ room.hint_points = ri.hint_points
                /\ room.hint_cost_percent = ri.hint_cost_percent

\* C7: a room-info notification overwrites the room metadata wholesale: the
\* state, and every snapshot copied afterwards, carry the seed, versions,
\* hint_points and hint_cost_percent the accessors returned at the latest
\* room-info notification, and room_name and hint_cost_points carry nothing
\* of an earlier notification (they stay at their initial values).
C7_RoomInfoWholesale ==
    /\ RoomAsDelivered(g_state)
    /\ out # << >> => RoomAsDelivered(out[1].room)

\* the snapshot taken after a second room-info notification shows the second
\* one while the state file still holds the first
C7_Witness ==
    /\ pc = "save_io"
    /\ handling = "room_info"
    /\ out[1].room.seed = "abc123"
    /\ out[1].room.server_version = "0.5.1"
    /\ out[1].room.hint_points = 10
    /\ state_file # << >>
    /\ state_file[1].room.seed = "xyz789"

\* C8: the data package is exactly the payload of the latest
\* data-package-changed notification, whatever else has been delivered
\* before, between or after; it is absent until the first one.
C8_DataPackageReplaced ==
    IF last.data_package = << >>
    THEN ~Contains(g_state.data_storage, "data_package")
    ELSE /\ Contains(g_state.data_storage, "data_package")
         /\ g_state.data_storage.v["data_package"] = last.data_package[1]

\* a second data package has replaced the first, which the state file still holds
C8_Witness ==
    /\ handling = "data_package"
    /\ Contains(g_state.data_storage, "data_package")
    /\ Contains(g_state.data_storage.v["data_package"].v["games"], "OtherGame")
    /\ state_file # << >>
    /\ Contains(state_file[1].data_storage, "data_package")
    /\ Contains(state_file[1].data_storage.v["data_package"].v["games"], "TestGame")

LocationIds == {5, 7}

AllLocationLists == UNION { [1..k -> LocationIds] : k \in 0..MaxListLen }

Range(seq) == { seq[i] : i \in 1..Len(seq) }

\* C9: recording checked locations is a commutative, idempotent set union:
\* from the set a location-checked handler leaves, recording A then B gives
\* the same set as recording B, then A, then A again, namely the set united
\* with the ids of A and B; the snapshot lists each recorded id once.
C9_CheckedUnion ==
    /\ handling = "location_checked" =>
          \A A, B \in AllLocationLists :
              LET S == g_state.checked_locations
                  ab == record_checked_locations(record_checked_locations(S, A), B)
                  baa == record_checked_locations(
                             record_checked_locations(
                                 record_checked_locations(S, B), A), A)
              IN  /\ ab = baa
                  /\ ab = S \cup Range(A) \cup Range(B)
    /\ out # << >> =>
          /\ Range(out[1].checked_locations) = stable.checked_locations
          /\ Len(out[1].checked_locations) = Cardinality(stable.checked_locations)

\* location-checked with [5,5,7] and then [7,9] has left {5,7,9}
C9_Witness ==
    /\ pc = "handler_return"
    /\ handling = "location_checked"
    /\ delivered = 2
    /\ g_state.checked_locations = {5, 7, 9}

\* C10: in every step the checked locations keep all their elements and the
\* item log keeps all its events in place: the new set contains the old one
\* and the old log is a prefix of the new one.
C10_Monotonic ==
    [][ /\ g_state.checked_locations \subseteq g_state'.checked_locations
        /\ Len(g_state.items) <= Len(g_state'.items)
        /\ SubSeq(g_state'.items, 1, Len(g_state.items)) = g_state.items ]_vars

\* both the set and the log have grown
C10_Witness ==
    /\ g_state.checked_locations = {7, 9}
    /\ Len(g_state.items) = 2
    /\ handling = "none"

\* the event an item of a batch received at time t is expected to be logged as
EventOf(it, t) ==
    [index |-> it.index, item |-> it.item, location |-> it.location,
     player |-> it.player, flags |-> it.flags, timestamp |-> t]

\* C11: an items-received notification with a batch of n items appends
\* exactly n events to the end of the log, in the order of the batch, all with
\* the one receipt time read for the batch and with index, item, location,
\* player and flags copied from each item, also when an index is already in
\* the log; a snapshot lists the logged events in the same order with the
\* same fields.
C11_BatchAppended ==
    [][ /\ (pc = "poll" /\ handling' = "items_received") =>
              LET batch == last'.items_received[1][1]
                  t == last'.items_received[1][2]
              IN  /\ Len(g_state'.items) = Len(g_state.items) + Len(batch)
                  /\ \A i \in 1..Len(g_state.items) :
                         g_state'.items[i] = g_state.items[i]
                  /\ \A i \in 1..Len(batch) :
                         g_state'.items[Len(g_state.items) + i] = EventOf(batch[i], t)
        /\ out' # << >> =>
              /\ Len(out'[1].items) = Len(g_state'.items)
              /\ \A i \in 1..Len(g_state'.items) :
                     LET e == g_state'.items[i]
                     IN  out'[1].items[i] =
                            [index |-> e.index, item |-> e.item,
                             location |-> e.location, player |-> e.player,
                             flags |-> e.flags, time |-> e.timestamp] ]_vars

\* the batch [Item1, Item2] and then the batch [Item2] have been logged: the
\* index 2 is in the log twice, and the flush shows the three events
C11_Witness ==
    /\ pc = "save_io"
    /\ Len(g_state.items) = 3
    /\ g_state.items[1] = EventOf(Item1, 1700000000)
    /\ g_state.items[2] = EventOf(Item2, 1700000000)
    /\ g_state.items[3] = EventOf(Item2, 1700000060)
    /\ Len(out[1].items) = 3
    /\ out[1].items[3].time = 1700000060

\* the key -> value mapping kept under data_storage["retrieved"]
RetrievedValues(s) ==
    IF Contains(s.data_storage, "retrieved")
    THEN s.data_storage.v["retrieved"].v
    ELSE EmptyObj.v

\* C12: a retrieved notification with mapping M is a per-key overwrite: in
\* the step of its handler every key of M gets the value M gives it, every
\* other stored key keeps its value and no other key appears, and the data
\* package, the raw slot payload and every other field of the state are
\* left as they were.
C12_RetrievedPerKey ==
    [][ (pc = "poll" /\ handling' = "retrieved") =>
          LET M == last'.retrieved[1]
              old == RetrievedValues(g_state)
              new == RetrievedValues(g_state')
          IN  /\ DOMAIN new = (DOMAIN old) \cup (DOMAIN M)
              /\ \A k \in DOMAIN M : new[k] = M[k]
              /\ \A k \in (DOMAIN old) \ (DOMAIN M) : new[k] = old[k]
              /\ \A key \in {"data_package", "slot_data"} :
                     /\ Contains(g_state'.data_storage, key)
                            <=> Contains(g_state.data_storage, key)
                     /\ Contains(g_state.data_storage, key) =>
                            g_state'.data_storage.v[key] = g_state.data_storage.v[key]
              /\ DOMAIN g_state'.data_storage.v
                     \subseteq (DOMAIN g_state.data_storage.v) \cup {"retrieved"}
              /\ \A f \in (DOMAIN g_state) \ {"data_storage"} :
                     g_state'[f] = g_state[f] ]_vars

\* {k1: 2, k2: "v"} and then {k1: 1} have been retrieved: k1 is overwritten
\* and k2 is kept
C12_Witness ==
    /\ handling = "retrieved"
    /\ last.retrieved = << [k1 |-> JNum(1)] >>
    /\ RetrievedValues(g_state) = [k1 |-> JNum(1), k2 |-> JStr("v")]

\* basic_json::size(): the number of entries of an object or an array
Entries(j) ==
    CASE j.t = "object" -> Cardinality(DOMAIN j.v)
      [] j.t = "array" -> Len(j.v)
      [] j.t = "null" -> 0
      [] OTHER -> 1

\* the locations of the snapshot's own game in the snapshot's data package
LocationsOf(doc) ==
    IF /\ Contains(doc.data_storage, "data_package")
       /\ Contains(doc.data_storage.v["data_package"], "games")
       /\ Contains(doc.data_storage.v["data_package"].v["games"], doc.me.game)
       /\ Contains(doc.data_storage.v["data_package"].v["games"].v[doc.me.game],
                   "locations")
    THEN << doc.data_storage.v["data_package"].v["games"].v[doc.me.game].v["locations"] >>
    ELSE << >>

Snapshots == { doc[1] : doc \in {d \in {out, state_file} : d # << >>} }

\* C13 as stated: in every snapshot room.location_count is the number of
\* entries of data_package.games[me.game].locations when the data package,
\* its entry for me.game and that entry's locations are present, and 0
\* otherwise.
C13_CountWhenPresent ==
    \A doc \in Snapshots :
        doc.room.location_count =
            IF LocationsOf(doc) # << >> THEN Entries(LocationsOf(doc)[1]) ELSE 0

\* C13 as amended: in every snapshot room.location_count is the number of
\* entries of data_package.games[me.game].locations when the data package,
\* its entry for me.game and that entry's locations are present and the
\* locations are a JSON object, and 0 otherwise: no data package, game
\* absent, me.game not set, or locations of another JSON type.
C13_CountWhenObject ==
    \A doc \in Snapshots :
        doc.room.location_count =
            IF LocationsOf(doc) # << >> /\ LocationsOf(doc)[1].t = "object"
            THEN Cardinality(DOMAIN LocationsOf(doc)[1].v)
            ELSE 0

\* slot connected without a game field, then the data package of TestGame:
\* the on-demand flush counts its two locations
C13_Witness ==
    /\ pc = "save_io"
    /\ handling = "data_package"
    /\ out[1].me.slot_name = "Player"
    /\ out[1].me.game = "TestGame"
    /\ LocationsOf(out[1]) # << >>
    /\ out[1].room.location_count = 2

FlushPositions == { "save_enter", "save_copy", "save_io" }

\* the step is the point at which a flush fails to write
FlushFails ==
    \/ pc = "save_enter" /\ ~HasStatePath(g_config)
    \/ pc = "save_enter" /\ HasStatePath(g_config) /\ ~StatePathReadable(g_config)
    \/ pc = "save_io" /\ ~fs_writable

\* C14: a flush whose write fails (no state path in the configuration, a
\* state path that cannot be read, a file that cannot be opened) returns to
\* its caller: the step goes to the caller's continuation, never to an
\* exception or to the exit of the process, the state and the state file are
\* what they were, and no lock_guard of save_state_to_file is left alive (no
\* lock_guard at all unless the caller holds its own); no step of a flush
\* changes the state.
C14_FailedFlushSwallowed ==
    [][ /\ FlushFails =>
              /\ pc' = ret
              /\ pc' \in {"ri_requests", "handler_return", "rt_return", "flushed"}
              /\ state_file' = state_file
              /\ \A i \in 1..Len(g_state_mutex') : g_state_mutex'[i] # "save"
              /\ ret # "rt_return" => g_state_mutex' = << >>
        /\ pc \in FlushPositions =>
              /\ g_state' = g_state
              /\ pc' \notin {"thrown", "exited"} ]_vars

\* the file cannot be opened: the on-demand flush of a data package failed,
\* the loop went on to deliver a second notification and a periodic flush is
\* attempted
C14_Witness ==
    /\ ~fs_writable
    /\ pc = "save_io"
    /\ ret = "flushed"
    /\ delivered = 2
    /\ last.data_package # << >>
    /\ state_file = << >>

\* C15: every handler invocation ends with the state mutex released and the
\* mutex is never requested by the thread that holds it: save_state_to_file
\* reaches its lock_guard (line 111) only with the mutex free, the thread
\* never blocks on its own lock, and at the loop's positions outside
\* client.poll() no lock_guard is alive.
C15_NoSelfDeadlock ==
    /\ (pc = "save_enter" /\ HasStatePath(g_config) /\ StatePathReadable(g_config))
           => g_state_mutex = << >>
    /\ pc # "deadlock"
    /\ pc \in {"poll", "check", "sleep", "flushed"} => g_state_mutex = << >>

\* C16: each room-info notification makes its handler do, in this order, the
\* room mutation, the on-demand flush, one GetDataPackage request for the
\* configured game and one ConnectSlot request: no request is made before
\* the flush is over or outside a room-info handler, the handler always gets
\* from the catalog request to the slot-connection request whatever the
\* catalog request did, and it ends having made each request exactly once.
C16_RequestsOncePerRoomInfo ==
    /\ handling # "room_info" => requests = << >>
    /\ handling = "room_info" =>
           /\ RoomAsDelivered(g_state)
           /\ pc \notin {"thrown", "exited"}
           /\ pc \in FlushPositions \cup {"ri_requests"} => requests = << >>
           /\ pc = "ri_requests" => out = << >>
           /\ pc = "ri_connect" =>
                  /\ Len(requests) = 1
                  /\ requests[1].op = "GetDataPackage"
                  /\ requests[1].include = <<ConfiguredGame>>
           /\ pc = "ri_return" =>
                  /\ Len(requests) = 2
                  /\ requests[1].op = "GetDataPackage"
                  /\ requests[2].op = "ConnectSlot"

LowValueKinds == { "location_checked", "items_received" }

\* C17: the location-checked and items-received handlers never write the
\* state file: no step of either handler starts a flush or changes the file;
\* the file changes only in a flush asked for by a high-value handler or by
\* the loop's periodic check, and the periodic check starts one only when
\* flush_interval has elapsed since the previous periodic flush was started,
\* however many notifications were delivered in between.
C17_LowValueNeverFlushes ==
    [][ /\ (handling \in LowValueKinds \/ handling' \in LowValueKinds) =>
              /\ state_file' = state_file
              /\ out' = out
              /\ ret' = ret
              /\ pc' \in {"handler_return", "poll"}
        /\ state_file' # state_file =>
              /\ pc = "save_io"
              /\ ret = "flushed" \/ handling \in HighValueKinds
        /\ (ret # "flushed" /\ ret' = "flushed") =>
              /\ pc = "check"
              /\ clock - flush_started >= flush_interval ]_vars

\* a periodic flush has written the empty state; a location-checked and an
\* items-received notification later the file is still that snapshot
C17_Witness ==
    /\ pc = "check"
    /\ state_file = <<snapshot(FetcherState, g_config)>>
    /\ g_state.checked_locations = {7, 9}
    /\ Len(g_state.items) = 2

\* the writes of the slot-connected handler for one notification, up to the
\* point where it is left
SlotConnectedWrites(s, ident, slot_data) ==
    LET a == slot_accessors(s, ident)
        g == slot_game(a, slot_data)
        i == slot_slot_id(g, slot_data)
        t == slot_team_id(i, slot_data)
    IN  IF Contains(slot_data, "game") /\ ~CanGetString(slot_data.v["game"]) THEN a
        ELSE IF Contains(slot_data, "slot") /\ ~CanGetInt(slot_data.v["slot"]) THEN g
        ELSE IF Contains(slot_data, "team") /\ ~CanGetInt(slot_data.v["team"]) THEN i
        ELSE slot_raw(t, slot_data)

\* the state obtained by applying to s the notification of `kind` whose
\* payload is the latest one in the history h
Applied(s, kind, h) ==
    CASE kind = "room_info" -> apply_room_info(s, h.room_info[1])
      [] kind = "slot_connected" ->
             SlotConnectedWrites(s, h.slot_connected[1][1], h.slot_connected[1][2])
      [] kind = "data_package" -> apply_data_package(s, h.data_package[1])
      [] kind = "location_checked" ->
             [s EXCEPT !.checked_locations =
                           record_checked_locations(@, h.location_checked[1])]
      [] kind = "items_received" ->
             [s EXCEPT !.items = record_item_events(@, h.items_received[1][1],
                                                    h.items_received[1][2])]
      [] kind = "retrieved" -> record_retrieved_values(s, h.retrieved[1])

SlotConnectedPositions == { "sc_game", "sc_slot", "sc_team", "sc_raw" }

\* the step in which the handler of a notification makes its last write
MutationEnds ==
    \/ /\ handling = "none"
       /\ handling' \in (HighValueKinds \cup LowValueKinds) \ {"slot_connected"}
    \/ /\ pc \in SlotConnectedPositions
       /\ pc' \notin SlotConnectedPositions

\* C18: mutations are applied in the order of delivery and a snapshot holds
\* exactly the notifications whose handlers had finished their writes: each
\* handler takes the state left by the previous notification to that state
\* with its own notification applied, nothing else changes the state, and
\* every snapshot copied, and every snapshot written to the file, is the
\* state left by the latest notification whose writes were finished when the
\* copy was taken, with no write of a later one.
C18_SnapshotIsReplay ==
    [][ /\ MutationEnds =>
              /\ g_state' = Applied(stable, handling', last')
              /\ stable' = g_state'
        /\ ~MutationEnds => stable' = stable
        /\ pc' \notin SlotConnectedPositions => g_state' = stable'
        /\ (out = << >> /\ out' # << >>) => out' = <<snapshot(stable, g_config)>>
        /\ (out # << >> /\ out' # << >>) => out' = out /\ stable' = stable
        /\ state_file' # state_file => state_file' = out ]_vars

\* slot connected as Alice playing OtherGame, then the data package of
\* OtherGame: the on-demand flush shows both, in that order
C18_Witness ==
    /\ pc = "save_io"
    /\ handling = "data_package"
    /\ delivered = 2
    /\ out[1].me.slot_name = "Alice"
    /\ out[1].me.game = "OtherGame"
    /\ LocationsOf(out[1]) = << JObj([Shop |-> JNum(9)]) >>
    /\ out[1].room.location_count = 1

\* the state file holds every checked location and every item event of s
FileHolds(s) ==
    \/ s.checked_locations = {} /\ s.items = << >>
    \/ /\ state_file # << >>
       /\ s.checked_locations \subseteq Range(state_file[1].checked_locations)
       /\ Len(state_file[1].items) >= Len(s.items)
       /\ SubSeq(state_file[1].items, 1, Len(s.items)) = items_json(s.items)

\* C19: with a writable state file, every location id and item event that a
\* handler has recorded gets into a written snapshot whatever is delivered
\* afterwards: the main thread never comes to a stop for good (blocked, or
\* out of main) while something recorded is missing from the file.
C19_RecordedReachesFile ==
    ( /\ HasStatePath(g_config) /\ StatePathReadable(g_config)
      /\ fs_writable
      /\ pc \in {"deadlock", "exited"} )
    => FileHolds(g_state)

\* a notification has been delivered and its handler is over within the
\* step: the handlers that only log
LogOnlyStep ==
    pc = "poll" /\ pc' = "poll" /\ delivered' = delivered + 1

\* C20: socket-connected, socket-error, socket-disconnected,
\* slot-disconnected and print-message notifications leave every field of
\* the state and the state file as they were, and start no flush; the state
\* changes only in the handler of one of the six mutating kinds.
C20_LogOnlyFrame ==
    [][ /\ LogOnlyStep =>
              /\ g_state' = g_state
              /\ state_file' = state_file
              /\ out' = out
              /\ g_state_mutex' = g_state_mutex
        /\ g_state' # g_state => handling' \in HighValueKinds \cup LowValueKinds ]_vars

\* slot connected as Alice and flushed, then a notification that is only
\* logged: identity, raw payload and file are all still there
C20_Witness ==
    /\ pc = "poll"
    /\ handling = "none"
    /\ delivered = 2
    /\ last = [NoHistory EXCEPT !.slot_connected =
                   << <<Alice, JObj([game |-> JStr("OtherGame"), slot |-> JNum(3),
                                     team |-> JNum(1)])>> >>]
    /\ g_state.slot_name = "Alice"
    /\ g_state.slot_id = 3
    /\ Contains(g_state.data_storage, "slot_data")
    /\ state_file = <<snapshot(g_state, g_config)>>

====
